---- MODULE Spec2Model ----
(***************************************************************************)
(* Model of the AoC 2025 autonomous solver: the TypeScript controller      *)
(* main() of src/agent/main.ts with its configuration helpers (config.ts), *)
(* the submission workflow the agent definitions of src/agent/agents.ts    *)
(* prescribe, and the date gates of run-solver.sh and caffeinate-aoc.sh.   *)
(***************************************************************************)
EXTENDS Integers, Sequences, FiniteSets, TLC

VARIABLES now, store, inv, runs, script, site, due

vars == <<now, store, inv, runs, script, site, due>>

----------------------------------------------------------------------------
(* Program constants (config.ts)                                           *)

AOC_YEAR == 2025
AOC_START_DAY == 1
AOC_END_DAY == 12
AOC_MONTH == 12
MAX_DAY == 25
MAX_SUBMISSION_ATTEMPTS == 5
\* "Never submit more than once per minute" (seconds)
MIN_SUBMIT_INTERVAL == 60
\* "Network errors: Retry up to 3 times"
MAX_NETWORK_RETRIES == 3

(* Bounds of the model                                                     *)

\* invocations of main() in one behaviour
MaxRuns == 2
\* rate-limited responses the site gives one part in one run
MaxRateLimited == 1
MaxArgs == 3

----------------------------------------------------------------------------
(* Calendar: a date is a record [y, m, d] in some timezone.                *)

D(y, m, d) == [y |-> y, m |-> m, d |-> d]

IsLeap(y) == (y % 4 = 0 /\ y % 100 # 0) \/ y % 400 = 0

DaysInMonth(y, m) ==
    IF m = 2 THEN (IF IsLeap(y) THEN 29 ELSE 28)
    ELSE IF m \in {4, 6, 9, 11} THEN 30 ELSE 31

NextDay(dt) ==
    IF dt.d < DaysInMonth(dt.y, dt.m) THEN D(dt.y, dt.m, dt.d + 1)
    ELSE IF dt.m < 12 THEN D(dt.y, dt.m + 1, 1)
    ELSE D(dt.y + 1, 1, 1)

PrevDay(dt) ==
    IF dt.d > 1 THEN D(dt.y, dt.m, dt.d - 1)
    ELSE IF dt.m > 1 THEN D(dt.y, dt.m - 1, DaysInMonth(dt.y, dt.m - 1))
    ELSE D(dt.y - 1, 12, 31)

DateLT(a, b) ==
    \/ a.y < b.y
    \/ a.y = b.y /\ a.m < b.m
    \/ a.y = b.y /\ a.m = b.m /\ a.d < b.d

\* The dates (in America/New_York) the clock of a behaviour stands at.
Dates ==
    { D(2025, 11, 5), D(2025, 11, 30), D(2025, 12, 5), D(2025, 12, 12), D(2025, 12, 13),
      D(2025, 12, 31), D(2026, 1, 1), D(2026, 12, 5) }

\* The dates of the behaviours with several invocations.
RunDates == { D(2025, 12, 5), D(2025, 12, 13) }

\* The system-local date at an instant whose New York date is dt: the local
\* timezone is behind New York (-1), on the same calendar day (0) or ahead (1).
Shifts == {-1, 0, 1}

LocalDate(dt, shift) ==
    IF shift = -1 THEN PrevDay(dt) ELSE IF shift = 1 THEN NextDay(dt) ELSE dt

\* The window of the event, as the spec and the documentation state it.
InWindow(dt) ==
    dt.y = AOC_YEAR /\ dt.m = AOC_MONTH /\ dt.d >= AOC_START_DAY /\ dt.d <= AOC_END_DAY

----------------------------------------------------------------------------
(* config.ts: the clock reads and the window check                         *)

getCurrentDayEST(t) == t.d
getCurrentMonthEST(t) == t.m
getCurrentYearEST(t) == t.y

\* variant: the year is not compared
isAoC2025Active_NoYear(year, month, day) ==
    IF month # AOC_MONTH THEN FALSE
    ELSE day >= AOC_START_DAY /\ day <= AOC_END_DAY

\* isAoC2025Active on the three values its three clock reads returned
isAoC2025Active(year, month, day) ==
    IF year # AOC_YEAR THEN FALSE
    ELSE IF month # AOC_MONTH THEN FALSE
    ELSE IF day < AOC_START_DAY \/ day > AOC_END_DAY THEN FALSE
    ELSE TRUE

----------------------------------------------------------------------------
(* parseArgs: argv is a sequence of tokens                                 *)

Undefined == [kind |-> "undefined", val |-> 0]
NaN == [kind |-> "nan", val |-> 0]
Num(n) == [kind |-> "num", val |-> n]

\* JavaScript parseInt on the tokens of the model
parseInt(tok) ==
    CASE tok = "0" -> Num(0)
      [] tok = "5" -> Num(5)
      [] tok = "12" -> Num(12)
      [] tok = "26" -> Num(26)
      [] tok = "-3" -> Num(-3)
      [] OTHER -> NaN

startsWithDashes(tok) == tok \in {"--day", "--dry-run", "--debug", "--force"}

RECURSIVE parseLoop(_, _, _)
parseLoop(args, i, result) ==
    IF i > Len(args) THEN result
    ELSE IF args[i] = "--day" /\ i + 1 <= Len(args)
        THEN parseLoop(args, i + 2, [result EXCEPT !.day = parseInt(args[i + 1])])
    ELSE IF args[i] = "--dry-run"
        THEN parseLoop(args, i + 1, [result EXCEPT !.dryRun = TRUE])
    ELSE IF args[i] = "--debug"
        THEN parseLoop(args, i + 1, [result EXCEPT !.debug = TRUE])
    ELSE IF args[i] = "--force"
        THEN parseLoop(args, i + 1, [result EXCEPT !.force = TRUE])
    ELSE IF ~startsWithDashes(args[i])
        THEN parseLoop(args, i + 1, [result EXCEPT !.day = parseInt(args[i])])
    ELSE parseLoop(args, i + 1, result)

parseArgs(argv) ==
    parseLoop(argv, 1, [day |-> Undefined, dryRun |-> FALSE, debug |-> FALSE, force |-> FALSE])

\* JavaScript truthiness of args.day: undefined, NaN and 0 are falsy
Truthy(v) == v.kind = "num" /\ v.val # 0

----------------------------------------------------------------------------
(* The state store: one file state/day<d>.json per day                     *)

StoreDays == {1, 5, 12, 13}

Absent == [status |-> "absent", attempts |-> 0]

\* no file state/day<d>.json
NoFile ==
    [kind |-> "none", status |-> "none", part1 |-> Absent, part2 |-> Absent,
     completed_at |-> FALSE, error |-> ""]

\* a file state/day<d>.json that cannot be read or is not valid JSON
CorruptFile ==
    [kind |-> "corrupt", status |-> "none", part1 |-> Absent, part2 |-> Absent,
     completed_at |-> FALSE, error |-> ""]

\* variant: the new state is created as failed
NewState_Failed ==
    [kind |-> "json", status |-> "failed", part1 |-> Absent, part2 |-> Absent,
     completed_at |-> FALSE, error |-> ""]

\* DayState as initializeDayState creates it
NewState ==
    [kind |-> "json", status |-> "pending", part1 |-> Absent, part2 |-> Absent,
     completed_at |-> FALSE, error |-> ""]

\* loadDayState: the parsed record, or null (NoFile) when the file is missing
\* or cannot be read or parsed
loadDayState(st, day) == IF st[day].kind = "json" THEN st[day] ELSE NoFile

\* variant: the record is written to the file of every day
saveDayState_EveryDay(st, day, state) == [d \in DOMAIN st |-> state]

\* saveDayState: the file of that day is replaced by the record given
saveDayState(st, day, state) == [st EXCEPT ![day] = state]

PartOf(state, k) == IF k = 1 THEN state.part1 ELSE state.part2

WithPart(state, k, part) ==
    IF k = 1 THEN [state EXCEPT !.part1 = part] ELSE [state EXCEPT !.part2 = part]

----------------------------------------------------------------------------
(* The environment: ANTHROPIC_API_KEY and the session file                 *)

\* process.env.ANTHROPIC_API_KEY: undefined or a string (of characters)
EnvUndefined == [kind |-> "undefined", val |-> <<>>]
EnvString(s) == [kind |-> "string", val |-> s]
EnvValues == {EnvUndefined, EnvString(<<>>), EnvString(<<"k">>)}

\* JavaScript truthiness of the variable: undefined and "" are falsy
TruthyEnv(v) == v.kind = "string" /\ Len(v.val) > 0

\* validateEnvironment: valid iff !process.env.ANTHROPIC_API_KEY is false
validateEnvironment(value) == TruthyEnv(value)

\* ~/.adventofcode.session: no file, a file that cannot be read (file.text()
\* throws), or a file with its content
NoCookie == [exists |-> FALSE, readable |-> FALSE, content |-> <<>>]
CookieFile(readable, content) ==
    [exists |-> TRUE, readable |-> readable, content |-> content]

SessionFiles ==
    { NoCookie,
      CookieFile(FALSE, <<"a", "\n">>),
      CookieFile(TRUE, <<>>),
      CookieFile(TRUE, <<" ", "\n">>),
      CookieFile(TRUE, <<"a", "\n">>) }

\* String.prototype.trim: white space is removed from both ends
IsSpace(c) == c \in {" ", "\t", "\n", "\r"}

RECURSIVE trimStart(_)
trimStart(s) ==
    IF s = <<>> THEN s
    ELSE IF IsSpace(Head(s)) THEN trimStart(Tail(s))
    ELSE s

RECURSIVE trimEnd(_)
trimEnd(s) ==
    IF s = <<>> THEN s
    ELSE IF IsSpace(s[Len(s)]) THEN trimEnd(SubSeq(s, 1, Len(s) - 1))
    ELSE s

trim(s) == trimEnd(trimStart(s))

----------------------------------------------------------------------------
(* One invocation of main()                                                *)

\* The processes of main(): the schedule of launchd starts one at a time
\* (Single); a second one can be started by hand while the first still runs.
Procs == {1, 2}
Single == {1}

Idle ==
    [pc |-> "idle", argv |-> <<>>, args |-> parseArgs(<<>>), apiKey |-> "unread",
     year |-> 0, month |-> 0, dayRead |-> 0, day |-> 0, note |-> FALSE,
     session |-> "unread", cookie |-> NoCookie, logDir |-> FALSE, found |-> "unread", state |-> NoFile,
     queryStarted |-> FALSE, wrote |-> FALSE, logWritten |-> FALSE,
     phase |-> "none", part |-> 0, fetched |-> "none", submitted |-> FALSE,
     seen |-> 0, limited |-> 0, pending |-> 0, retries |-> 0, outcome |-> "none", subtype |-> "none", saveFailed |-> "none",
     exit |-> -1, reason |-> "none", prior |-> "none", overlap |-> FALSE]

NoScript ==
    [name |-> "none", ny |-> D(0, 0, 0), local |-> D(0, 0, 0), jq |-> FALSE,
     day |-> 0, file |-> "none", passed |-> FALSE, ran |-> FALSE, awake |-> FALSE,
     stage |-> "none", env |-> EnvUndefined, cookie |-> NoCookie,
     keyChecked |-> FALSE, sessionChecked |-> FALSE, hasErrors |-> FALSE,
     exit |-> -1]

\* The command lines of the behaviours with several invocations: no day or
\* day 5, with --force or --dry-run, and a day above the range.
ArgvCases ==
    { <<>>, <<"5">>, <<"--day", "5">>, <<"26">>,
      <<"5", "--force">>, <<"5", "--dry-run">>, <<"--force">> }

\* The command lines of the single invocation: no day, a positional day or
\* --day <value>, with any of the flags.
DayTokens == {"0", "5", "12", "26", "-3", "abc"}

DayParts ==
    {<<>>} \cup {<<t>> : t \in DayTokens} \cup {<<"--day", t>> : t \in {"0", "5"}}

FlagParts == {<<>>, <<"--force">>, <<"--dry-run">>, <<"--force", "--dry-run">>}

ArgvAll == {d \o f : d \in DayParts, f \in FlagParts}

\* What the rules of the submission handler still require to pass before the
\* next submit call for the part in work: the rest of the backoff of Step 5,
\* counted from the end of the last attempt, and the rest of the minute of
\* "Never submit more than once per minute", counted from the last submit call
NoDue == [backoff |-> 0, floor |-> 0]

InitAt(date) ==
    /\ now = date
    /\ store = [d \in StoreDays |-> NoFile]
    /\ inv = [p \in Procs |-> Idle]
    /\ runs = 0
    /\ script = NoScript
    /\ site = 0
    /\ due = NoDue

\* The process has ended with an exit status: what it did stays on record, the
\* position of its workflow is gone.
Ended(rec, code, why) ==
    [rec EXCEPT !.pc = "done", !.exit = code, !.reason = why,
                !.phase = "none", !.part = 0, !.limited = 0, !.pending = 0,
                !.retries = 0, !.outcome = "none", !.seen = 0,
                !.state = NoFile]

\* variant: a failing save ends the run with exit status 0
SaveFailure_ExitZero(rec, stage) ==
    Ended([rec EXCEPT !.saveFailed = stage], 0, "io")

\* saveDayState throws: the error leaves main() (through its catch block when
\* thrown inside the try) and main().catch exits 1
SaveFailure(rec, stage) ==
    Ended([rec EXCEPT !.saveFailed = stage], 1, "io")

\* process.exit(code)
Exit(p, code, why) == inv' = [inv EXCEPT ![p] = Ended(inv[p], code, why)]

\* The clock moves on between invocations, to a later date of the set.
AdvanceClock(dates) ==
    /\ \A p \in Procs : inv[p].pc = "idle"
    /\ script = NoScript
    /\ \E t \in dates : DateLT(now, t) /\ now' = t
    /\ site' = 0
    /\ due' = NoDue
    /\ UNCHANGED <<store, inv, runs, script>>

\* Midnight in New York while main() selects its day: the clock reads of
\* isAoC2025Active (year, month, day) and of main() (day) are separate reads.
Midnight(dates) ==
    /\ now \in dates
    /\ \E p \in Procs : inv[p].pc \in {"gateMonth", "gateDay", "readDay"}
    /\ now' = NextDay(now)
    /\ UNCHANGED <<store, inv, runs, script, site, due>>

\* Time passes between invocations: the wait the site asked for and the waits
\* of the submission handler's rules are over.
Elapse ==
    /\ \A p \in Procs : inv[p].pc = "idle"
    /\ script = NoScript
    /\ site > 0 \/ due # NoDue
    /\ site' = 0
    /\ due' = NoDue
    /\ UNCHANGED <<now, store, inv, runs, script>>

\* a process of main() that has not ended
Alive(q) == inv[q].pc \notin {"idle", "done"}

\* main() is started: parseArgs. No lock and no pid file: whether another
\* process of main() is alive is not looked at (it is only noted, overlap).
Launch(p, cases) ==
    /\ inv[p].pc = "idle"
    /\ script = NoScript
    /\ runs' = runs + 1
    /\ \E argv \in cases :
          inv' = [q \in Procs |->
                     IF q = p
                     THEN [inv[p] EXCEPT !.pc = "validateEnv", !.args = parseArgs(argv),
                                         !.overlap = \E r \in Procs : Alive(r)]
                     ELSE IF Alive(q) THEN [inv[q] EXCEPT !.overlap = TRUE]
                     ELSE inv[q]]
    /\ UNCHANGED <<now, store, script, site, due>>

Start(p) == runs < MaxRuns /\ Launch(p, ArgvCases)

StartOnce(p) == runs < 1 /\ Launch(p, ArgvAll)

\* validateEnvironment: ANTHROPIC_API_KEY must be set
ValidateEnv(p) ==
    /\ inv[p].pc = "validateEnv"
    /\ \E value \in EnvValues :
          IF ~validateEnvironment(value)
          THEN inv' = [inv EXCEPT ![p] =
                          Ended([inv[p] EXCEPT !.apiKey = "unset"], 1, "env")]
          ELSE inv' = [inv EXCEPT ![p].apiKey = "set", ![p].pc = "selectDay"]
    /\ UNCHANGED <<now, store, runs, script, site, due>>

\* if (args.day): the day given is used, a note is printed outside the period
ExplicitDay(p) ==
    /\ inv[p].pc = "selectDay"
    /\ Truthy(inv[p].args.day)
    /\ inv' = [inv EXCEPT ![p].day = inv[p].args.day.val,
                          ![p].note = ~isAoC2025Active(getCurrentYearEST(now),
                                          getCurrentMonthEST(now), getCurrentDayEST(now)),
                          ![p].pc = "validateDay"]
    /\ UNCHANGED <<now, store, runs, script, site, due>>

\* auto-detect mode, isAoC2025Active: const year = getCurrentYearEST()
GateYear(p) ==
    /\ inv[p].pc = "selectDay"
    /\ ~Truthy(inv[p].args.day)
    /\ inv' = [inv EXCEPT ![p].year = getCurrentYearEST(now), ![p].pc = "gateMonth"]
    /\ UNCHANGED <<now, store, runs, script, site, due>>

\* isAoC2025Active: const month = getCurrentMonthEST()
GateMonth(p) ==
    /\ inv[p].pc = "gateMonth"
    /\ inv' = [inv EXCEPT ![p].month = getCurrentMonthEST(now), ![p].pc = "gateDay"]
    /\ UNCHANGED <<now, store, runs, script, site, due>>

\* isAoC2025Active: const day = getCurrentDayEST(), and the three comparisons;
\* outside the period main() exits 0
GateDay(p) ==
    /\ inv[p].pc = "gateDay"
    /\ LET d == getCurrentDayEST(now) IN
          IF isAoC2025Active(inv[p].year, inv[p].month, d)
          THEN inv' = [inv EXCEPT ![p].dayRead = d, ![p].pc = "readDay"]
          ELSE inv' = [inv EXCEPT ![p] =
                          Ended([inv[p] EXCEPT !.dayRead = d], 0, "skip_window")]
    /\ UNCHANGED <<now, store, runs, script, site, due>>

\* day = getCurrentDayEST()
ReadDay(p) ==
    /\ inv[p].pc = "readDay"
    /\ inv' = [inv EXCEPT ![p].day = getCurrentDayEST(now), ![p].pc = "validateDay"]
    /\ UNCHANGED <<now, store, runs, script, site, due>>

\* if (day < 1 || day > 25) exit 1
InvalidDay(day) == day < 1 \/ day > MAX_DAY

ValidateDay(p) ==
    /\ inv[p].pc = "validateDay"
    /\ IF InvalidDay(inv[p].day)
       THEN Exit(p, 1, "invalid_day")
       ELSE inv' = [inv EXCEPT ![p].pc = "checkSession"]
    /\ UNCHANGED <<now, store, runs, script, site, due>>

\* checkSessionCookie: the file exists and is not blank after trim()
checkSessionCookie(file) ==
    IF ~file.exists THEN FALSE
    ELSE IF ~file.readable THEN FALSE
    ELSE Len(trim(file.content)) > 0

\* What main() notes of the session file for its messages
SessionLabel(file) ==
    IF checkSessionCookie(file) THEN "ok"
    ELSE IF ~file.exists THEN "missing"
    ELSE IF ~file.readable THEN "unreadable"
    ELSE "blank"

CheckSession(p) ==
    /\ inv[p].pc = "checkSession"
    /\ \E file \in SessionFiles :
          IF checkSessionCookie(file)
          THEN inv' = [inv EXCEPT ![p].session = SessionLabel(file),
                                  ![p].cookie = file,
                                  ![p].pc = "setupLogging"]
          ELSE inv' = [inv EXCEPT ![p] =
                          Ended([inv[p] EXCEPT !.session = SessionLabel(file),
                                               !.cookie = file], 1, "session")]
    /\ UNCHANGED <<now, store, runs, script, site, due>>

\* setupLogging: mkdir logs, the name of the log file (nothing is written yet)
SetupLogging(p) ==
    /\ inv[p].pc = "setupLogging"
    /\ inv' = [inv EXCEPT ![p].logDir = TRUE, ![p].pc = "initState"]
    /\ UNCHANGED <<now, store, runs, script, site, due>>

\* variant: the existing state is never kept
KeepExisting_Never(existingState) == FALSE

\* initializeDayState: if (existingState) return existingState
KeepExisting(existingState) == existingState.kind = "json"

\* initializeDayState: mkdir state; the existing state is returned; without
\* one a pending state is created and saved. A save that fails throws out of
\* main(), and main().catch exits 1.
InitState(p) ==
    /\ inv[p].pc = "initState"
    /\ LET day == inv[p].day
           existingState == loadDayState(store, day)
       IN IF KeepExisting(existingState)
          THEN /\ inv' = [inv EXCEPT ![p].state = existingState,
                                     ![p].found = IF existingState.kind = "json"
                                                  THEN existingState.status
                                                  ELSE store[day].kind,
                                     ![p].pc = "checkCompleted"]
               /\ store' = store
          ELSE \E ok \in BOOLEAN :
                  IF ok
                  THEN /\ store' = saveDayState(store, day, NewState)
                       /\ inv' = [inv EXCEPT ![p].state = NewState,
                                             ![p].found = store[day].kind,
                                             ![p].wrote = TRUE,
                                             ![p].pc = "checkCompleted"]
                  ELSE /\ store' = store
                       /\ inv' = [inv EXCEPT ![p] =
                               SaveFailure([inv[p] EXCEPT !.found = store[day].kind],
                                           "initial")]
    /\ UNCHANGED <<now, runs, script, site, due>>

\* variant: a completed day is never skipped
AlreadyCompleted_NoSkip(state, args) == FALSE

\* variant: --force is not consulted
AlreadyCompleted_IgnoreForce(state, args) == state.status = "completed"

\* variant: a day marked failed is skipped like a completed one
AlreadyCompleted_OrFailed(state, args) ==
    state.status \in {"completed", "failed"} /\ ~args.force

\* if (state.status === 'completed' && !args.force) exit 0
AlreadyCompleted(state, args) == state.status = "completed" /\ ~args.force

\* query() is called with the state in its prompt: orchestration starts with
\* the puzzle fetcher. main() does not read its copy of the state again (the
\* final update loads the file), so the record drops it here.
Orchestrating(rec) ==
    [rec EXCEPT !.state = NoFile, !.queryStarted = TRUE, !.phase = "fetch", !.pc = "query"]

\* variant: the status is left as it was
ForceReset_Keep(state) == state

\* if (args.force): state.status = 'in_progress'
ForceReset(state) == [state EXCEPT !.status = "in_progress"]

\* The already-completed check, the force reset (status in_progress, saved) and
\* the call of query().
CheckCompleted(p) ==
    /\ inv[p].pc = "checkCompleted"
    /\ IF AlreadyCompleted(inv[p].state, inv[p].args)
       THEN /\ Exit(p, 0, "skip_completed")
            /\ store' = store
       ELSE IF inv[p].args.force
       THEN LET forced == ForceReset(inv[p].state) IN
            \E ok \in BOOLEAN :
               IF ok
               THEN /\ store' = saveDayState(store, inv[p].day, forced)
                    /\ inv' = [inv EXCEPT ![p] =
                            Orchestrating([inv[p] EXCEPT !.wrote = TRUE])]
               ELSE /\ store' = store
                    /\ inv' = [inv EXCEPT ![p] =
                            SaveFailure([inv[p] EXCEPT !.state = forced], "force")]
       ELSE /\ inv' = [inv EXCEPT ![p] = Orchestrating(inv[p])]
            /\ store' = store
    /\ UNCHANGED <<now, runs, script, site, due>>

----------------------------------------------------------------------------
(* The orchestration: the workflow of the orchestrator prompt and of the   *)
(* agent definitions (agents.ts), working on the state file of the day.    *)

\* variant: part 2 is taken up whatever the state of part 1
NextPart_Second(state) ==
    IF state.part2.status # "completed" THEN 2 ELSE 0

\* The part the workflow turns to: part 1 until it is completed, then part 2
\* (0: both are completed).
NextPart(state) ==
    IF state.part1.status # "completed" THEN 1
    ELSE IF state.part2.status # "completed" THEN 2
    ELSE 0

\* variant: every run starts the count of a part afresh
Logged_Fresh(state, k) == [status |-> "pending", attempts |-> 0]

\* The record of part k in the state file, attempts 0 when it is not there yet
Logged(state, k) ==
    IF PartOf(state, k).status = "absent"
    THEN [status |-> "pending", attempts |-> 0]
    ELSE PartOf(state, k)

\* variant: one attempt too many
MaySubmit_OffByOne(attempts) == attempts <= MAX_SUBMISSION_ATTEMPTS

\* Safety rule: maximum 5 submission attempts per part
MaySubmit(attempts) == attempts < MAX_SUBMISSION_ATTEMPTS

\* variant: the limit is reached one attempt late
Exhausted_Late(attempts) == attempts > MAX_SUBMISSION_ATTEMPTS

\* After 5 attempts: flag for manual review
Exhausted(attempts) == attempts >= MAX_SUBMISSION_ATTEMPTS

Running(p) == inv[p].pc = "query"

\* The agent updates part k of the state file of its day.
AgentWrite(p, k, part) ==
    store' = [store EXCEPT ![inv[p].day] = WithPart(store[inv[p].day], k, part)]

\* puzzle-fetcher: the puzzle is downloaded, or it is not unlocked yet
\* ("Return error, don't retry", "Puzzle not available: Exit gracefully")
AgentFetch(p) ==
    /\ Running(p) /\ inv[p].phase = "fetch"
    /\ \E r \in {"ok", "not_unlocked"} :
          LET k == NextPart(store[inv[p].day]) IN
          IF r = "ok" /\ k # 0
          THEN inv' = [inv EXCEPT ![p].phase = "solve", ![p].part = k,
                                  ![p].fetched = r]
          ELSE inv' = [inv EXCEPT ![p].phase = "finished", ![p].fetched = r]
    /\ UNCHANGED <<now, store, runs, script, site, due>>

\* tdd-solver: an answer for the part; the state file is updated after the step
AgentSolve(p) ==
    /\ Running(p) /\ inv[p].phase = "solve"
    /\ LET k == inv[p].part
           part == Logged(store[inv[p].day], k)
       IN AgentWrite(p, k, [part EXCEPT !.status = "in_progress"])
    /\ inv' = [inv EXCEPT ![p].phase = "submit", ![p].wrote = TRUE]
    /\ UNCHANGED <<now, runs, script, site, due>>

\* DRY RUN MODE: the answer is logged, not submitted
AgentDryRun(p) ==
    /\ Running(p) /\ inv[p].phase = "submit"
    /\ inv[p].args.dryRun
    /\ inv' = [inv EXCEPT ![p].phase = "finished"]
    /\ UNCHANGED <<now, store, runs, script, site, due>>

\* Re-submit with backoff, "After 5 attempts: flag for manual review": a part
\* that has used its attempts is not submitted again, the workflow ends.
AgentGiveUp(p) ==
    /\ Running(p) /\ inv[p].phase = "submit"
    /\ ~inv[p].args.dryRun
    /\ Exhausted(Logged(store[inv[p].day], inv[p].part).attempts)
    /\ inv' = [inv EXCEPT ![p].phase = "finished"]
    /\ UNCHANGED <<now, store, runs, script, site, due>>

\* The part after an incorrect answer: attempts + 1; failed once the attempts
\* are used up (the handler is then back at its re-submit step, where it can
\* only give up)
AfterIncorrect(part) ==
    [status |-> IF Exhausted(part.attempts + 1) THEN "failed" ELSE "in_progress",
     attempts |-> part.attempts + 1]

\* The part the workflow goes on with after part k has been accepted
Advance(rec, k) ==
    [rec EXCEPT !.phase = IF k = 1 THEN "solve" ELSE "finished",
                !.part = IF k = 1 THEN 2 ELSE k]

\* "Always respect rate limit wait times" (seconds); the example of the prompt
\* is "You have 5m 23s left to wait"
RateLimitWaits == {323}

\* Re-submit with backoff: the wait before attempt n, in seconds
Backoff(n) ==
    CASE n = 2 -> 60
      [] n = 3 -> 300
      [] n = 4 -> 900
      [] n = 5 -> 3600
      [] OTHER -> 0

\* What is left of a wait after some time has passed
Remaining(wait, passed) == IF wait > passed THEN wait - passed ELSE 0

Max(a, b) == IF a > b THEN a ELSE b

\* The sleep of a handler that keeps all three rules: the wait of the site, the
\* backoff and the minute between two submit calls
Longest(wait, owed) == Max(wait, Max(owed.backoff, owed.floor))

\* submission-handler: "sleep": the handler waits out what it has to wait
\* before the next submission
AgentSleep(p) ==
    /\ Running(p) /\ inv[p].phase = "submit"
    /\ inv[p].pending > 0
    /\ inv' = [inv EXCEPT ![p].pending = 0]
    /\ site' = Remaining(site, inv[p].pending)
    /\ due' = [backoff |-> Remaining(due.backoff, inv[p].pending),
               floor |-> Remaining(due.floor, inv[p].pending)]
    /\ UNCHANGED <<now, store, runs, script>>

\* variant: the handler counts the attempts of its own conversation only
Seen_OwnOnly(part) == 0

\* The attempts the handler takes from the state file when it is about to
\* submit; what it logs after the response is counted from them.
Seen(part) == part.attempts

\* submission-handler: aoc submit {part} {answer}; the call is under way
AgentSubmit(p) ==
    /\ Running(p) /\ inv[p].phase = "submit"
    /\ ~inv[p].args.dryRun
    /\ MaySubmit(Seen(Logged(store[inv[p].day], inv[p].part)))
    /\ inv[p].pending = 0
    /\ inv' = [inv EXCEPT ![p].phase = "awaiting", ![p].submitted = TRUE,
                          ![p].outcome = "none",
                          ![p].seen = Seen(Logged(store[inv[p].day], inv[p].part))]
    /\ due' = [due EXCEPT !.floor = MIN_SUBMIT_INTERVAL]
    /\ UNCHANGED <<now, store, runs, script, site>>

\* The handler has the response of the site: the part's record and the
\* workflow after it
Responded(rec, outcome) ==
    [rec EXCEPT !.outcome = outcome, !.retries = 0, !.seen = 0]

\* "Network errors: Retry up to 3 times"
MayRetry(retries) == retries < MAX_NETWORK_RETRIES

\* submission-handler: the response of the site, one of the four Response Types
AgentResponse(p) ==
    /\ Running(p) /\ inv[p].phase = "awaiting"
    /\ LET k == inv[p].part
           part == [Logged(store[inv[p].day], k) EXCEPT !.attempts = inv[p].seen]
           incorrect == Responded([inv[p] EXCEPT
                            !.wrote = TRUE,
                            !.pending = IF Exhausted(part.attempts + 1)
                                        THEN 0
                                        ELSE Longest(0, due'),
                            !.phase = IF Exhausted(part.attempts + 1)
                                      THEN "submit" ELSE "solve"], "incorrect")
       IN \E outcome \in {"correct", "incorrect", "rate_limited", "already_completed"} :
             CASE outcome = "correct" ->
                    /\ site = 0 /\ site' = site
                    /\ due' = NoDue
                    /\ AgentWrite(p, k, [status |-> "completed",
                                         attempts |-> part.attempts + 1])
                    /\ inv' = [inv EXCEPT ![p] =
                          Responded(Advance([inv[p] EXCEPT !.wrote = TRUE], k), outcome)]
               [] outcome = "incorrect" ->
                    /\ site = 0 /\ site' = site
                    /\ due' = IF Exhausted(part.attempts + 1)
                              THEN NoDue
                              ELSE [due EXCEPT !.backoff = Backoff(part.attempts + 2)]
                    /\ AgentWrite(p, k, AfterIncorrect(part))
                    /\ inv' = [inv EXCEPT ![p] = incorrect]
               [] outcome = "rate_limited" ->
                    /\ inv[p].limited < MaxRateLimited
                    /\ store' = store
                    /\ \E wait \in RateLimitWaits :
                          /\ site' = IF site > 0 THEN site ELSE wait
                          /\ due' = due
                          /\ inv' = [inv EXCEPT ![p] =
                                Responded([inv[p] EXCEPT !.phase = "submit",
                                                         !.limited = @ + 1,
                                                         !.pending = Longest(site', due)],
                                          outcome)]
               [] outcome = "already_completed" ->
                    /\ site = 0 /\ site' = site
                    /\ due' = NoDue
                    /\ AgentWrite(p, k, [part EXCEPT !.status = "completed"])
                    /\ inv' = [inv EXCEPT ![p] =
                          Responded(Advance([inv[p] EXCEPT !.wrote = TRUE], k), outcome)]
    /\ UNCHANGED <<now, runs, script>>

\* The submit call fails with a network error: no response of the site.
\* "Network errors: Retry up to 3 times"; for the failure after the last retry
\* the prompts have no rule: the workflow ends, or the handler logs the
\* submission as a failed attempt.
AgentNetworkError(p) ==
    /\ Running(p) /\ inv[p].phase = "awaiting"
    /\ LET k == inv[p].part
           part == [Logged(store[inv[p].day], k) EXCEPT !.attempts = inv[p].seen]
       IN IF MayRetry(inv[p].retries)
          THEN /\ store' = store
               /\ due' = due
               /\ inv' = [inv EXCEPT ![p].outcome = "network_error",
                                     ![p].retries = @ + 1,
                                     ![p].pending = Longest(0, due),
                                     ![p].phase = "submit"]
          ELSE \E logged \in BOOLEAN :
                  IF logged
                  THEN /\ due' = IF Exhausted(part.attempts + 1)
                                 THEN NoDue
                                 ELSE [due EXCEPT !.backoff = Backoff(part.attempts + 2)]
                       /\ AgentWrite(p, k, AfterIncorrect(part))
                       /\ inv' = [inv EXCEPT ![p] =
                             [inv[p] EXCEPT
                                !.outcome = "network_error", !.retries = 0,
                                !.seen = 0, !.wrote = TRUE,
                                !.pending = IF Exhausted(part.attempts + 1)
                                            THEN 0 ELSE Longest(0, due'),
                                !.phase = IF Exhausted(part.attempts + 1)
                                          THEN "submit" ELSE "solve"]]
                  ELSE /\ store' = store
                       /\ due' = due
                       /\ inv' = [inv EXCEPT ![p].outcome = "network_error",
                                             ![p].retries = 0, ![p].seen = 0,
                                             ![p].phase = "finished"]
    /\ UNCHANGED <<now, runs, script, site>>

----------------------------------------------------------------------------
(* The end of the orchestration in main()                                  *)

\* variant: every result message marks the day completed
FinalState_Completed(state, subtype) ==
    [state EXCEPT !.status = "completed", !.completed_at = TRUE]

\* variant: the final update is made on a copy without what the agents logged
FinalState_Stale(state, subtype) ==
    [state EXCEPT !.status = IF subtype = "success" THEN "completed" ELSE "failed",
                  !.part1 = Absent, !.part2 = Absent]

\* The state main() writes for a result message: completed with completed_at
\* for subtype success, failed with the subtype as error for any other
FinalState(state, subtype) ==
    IF subtype = "success"
    THEN [state EXCEPT !.status = "completed", !.completed_at = TRUE]
    ELSE [state EXCEPT !.status = "failed", !.error = subtype]

\* catch (error): the state is loaded again and saved as failed; exit 1
Caught(p, rec) ==
    LET errorState == loadDayState(store, rec.day) IN
    IF errorState.kind = "json"
    THEN \E ok \in BOOLEAN :
            IF ok
            THEN /\ store' = saveDayState(store, rec.day,
                                [errorState EXCEPT !.status = "failed", !.error = "exception"])
                 /\ inv' = [inv EXCEPT ![p] =
                         Ended([rec EXCEPT !.wrote = TRUE], 1, "throw")]
            ELSE /\ store' = store
                 /\ inv' = [inv EXCEPT ![p] = SaveFailure(rec, "catch")]
    ELSE /\ store' = store
         /\ inv' = [inv EXCEPT ![p] = Ended(rec, 1, "throw")]

\* A result message: the final state is loaded, updated and saved, the log is
\* written, and main() returns.
ResultMessage(p, subtype) ==
    LET finalState == loadDayState(store, inv[p].day) IN
    IF finalState.kind = "json"
    THEN \E ok \in BOOLEAN :
            IF ok
            THEN /\ store' = saveDayState(store, inv[p].day, FinalState(finalState, subtype))
                 /\ inv' = [inv EXCEPT ![p] =
                         Ended([inv[p] EXCEPT !.subtype = subtype, !.wrote = TRUE,
                                              !.logWritten = TRUE], 0, "result")]
            ELSE Caught(p, [inv[p] EXCEPT !.saveFailed = "final", !.subtype = subtype])
    ELSE /\ store' = store
         /\ inv' = [inv EXCEPT ![p] =
                 Ended([inv[p] EXCEPT !.subtype = subtype, !.logWritten = TRUE],
                       0, "result")]

\* The result subtypes other than success the model lets the SDK report
ErrorSubtypes == {"error_max_turns", "error_during_execution"}

\* The orchestrator ends its work: result subtype success
QuerySuccess(p) ==
    /\ Running(p) /\ inv[p].phase = "finished"
    /\ ResultMessage(p, "success")
    /\ UNCHANGED <<now, runs, script, site, due>>

\* The SDK ends the conversation: any other result subtype
QueryError(p) ==
    /\ Running(p)
    /\ \E subtype \in ErrorSubtypes :
          ResultMessage(p, subtype)
    /\ UNCHANGED <<now, runs, script, site, due>>

\* query() throws
QueryThrow(p) ==
    /\ Running(p)
    /\ Caught(p, inv[p])
    /\ UNCHANGED <<now, runs, script, site, due>>

\* The stream of query() ends without a result message: the loop ends, main()
\* prints where the log would be and returns; nothing is written
QueryEnd(p) ==
    /\ Running(p)
    /\ inv' = [inv EXCEPT ![p] = Ended(inv[p], 0, "no_result")]
    /\ UNCHANGED <<now, store, runs, script, site, due>>

\* The process is killed (the machine goes down, launchd or the user stops
\* it): no handler runs and nothing more is written. The next process on this
\* machine comes after a kill (prior).
Kill(p) ==
    /\ inv[p].pc \notin {"idle", "done"}
    /\ inv' = [inv EXCEPT ![p] = [Idle EXCEPT !.prior = "killed"]]
    /\ UNCHANGED <<now, store, runs, script, site, due>>

\* The process is gone.
Finish(p) ==
    /\ inv[p].pc = "done"
    /\ inv' = [inv EXCEPT ![p] = Idle]
    /\ UNCHANGED <<now, store, runs, script, site, due>>

----------------------------------------------------------------------------
(* The shell scripts launchd starts                                        *)

\* The date gate of both scripts: year and month from `date` before TZ is
\* exported (the system-local date), the day after it (the New York date).
ScriptGate(local, ny) ==
    /\ local.y = 2025
    /\ local.m = 12
    /\ ~(ny.d < 1)
    /\ ~(ny.d > 12)

\* run-solver.sh
RunSolver ==
    /\ \A p \in Procs : inv[p].pc = "idle"
    /\ script = NoScript
    /\ \E shift \in Shifts, jq \in BOOLEAN, cargo \in BOOLEAN :
          LET local == LocalDate(now, shift)
              base == [NoScript EXCEPT !.name = "run-solver", !.ny = now, !.local = local]
          IN IF ~ScriptGate(local, now)
             THEN script' = [base EXCEPT !.exit = 0]
             ELSE LET day == now.d
                      file == store[day]
                      at == [base EXCEPT !.passed = TRUE, !.day = day,
                                         !.file = IF file.kind = "json" THEN file.status
                                                  ELSE file.kind,
                                         !.jq = jq]
                  IN IF file.kind # "none" /\ jq /\ file.kind = "json"
                        /\ file.status = "completed"
                     THEN script' = [at EXCEPT !.exit = 0]
                     ELSE script' = [at EXCEPT !.ran = TRUE,
                                               !.exit = IF cargo THEN 0 ELSE 1]
    /\ UNCHANGED <<now, store, inv, runs, site, due>>

\* caffeinate-aoc.sh
Caffeinate ==
    /\ \A p \in Procs : inv[p].pc = "idle"
    /\ script = NoScript
    /\ \E shift \in Shifts :
          LET local == LocalDate(now, shift)
              base == [NoScript EXCEPT !.name = "caffeinate", !.ny = now, !.local = local]
          IN IF ~ScriptGate(local, now)
             THEN script' = [base EXCEPT !.exit = 0]
             ELSE script' = [base EXCEPT !.passed = TRUE, !.day = now.d,
                                         !.awake = TRUE, !.exit = 0]
    /\ UNCHANGED <<now, store, inv, runs, site, due>>

\* check-session.ts: 1. Checking Anthropic API Key
SetupKey ==
    /\ \A p \in Procs : inv[p].pc = "idle"
    /\ script = NoScript
    /\ \E value \in EnvValues :
          script' = [NoScript EXCEPT !.name = "check-session", !.stage = "session",
                                     !.env = value, !.keyChecked = TRUE,
                                     !.hasErrors = ~TruthyEnv(value)]
    /\ UNCHANGED <<now, store, inv, runs, site, due>>

\* variant: the session check overwrites what the key check found
SessionChecked_Overwrite(hasErrors, file) == ~checkSessionCookie(file)

\* check-session.ts: hasSession = await checkSessionCookie(); the new value of
\* hasErrors
SessionChecked(hasErrors, file) == hasErrors \/ ~checkSessionCookie(file)

\* check-session.ts: 2. Checking AoC Session Cookie
SetupSession ==
    /\ script.name = "check-session" /\ script.stage = "session"
    /\ \E file \in SessionFiles :
          script' = [script EXCEPT !.stage = "exit", !.cookie = file,
                                   !.sessionChecked = TRUE,
                                   !.hasErrors = SessionChecked(script.hasErrors, file)]
    /\ UNCHANGED <<now, store, inv, runs, site, due>>

\* check-session.ts: process.exit(1) if hasErrors, else process.exit(0)
SetupExit ==
    /\ script.name = "check-session" /\ script.stage = "exit"
    /\ script' = [script EXCEPT !.stage = "done",
                                !.exit = IF script.hasErrors THEN 1 ELSE 0]
    /\ UNCHANGED <<now, store, inv, runs, site, due>>

\* The script's process is gone.
ScriptEnd ==
    /\ script # NoScript
    /\ script' = NoScript
    /\ UNCHANGED <<now, store, inv, runs, site, due>>

----------------------------------------------------------------------------

Steps(p) ==
    \/ ValidateEnv(p) \/ ExplicitDay(p)
    \/ GateYear(p) \/ GateMonth(p) \/ GateDay(p) \/ ReadDay(p)
    \/ ValidateDay(p) \/ CheckSession(p) \/ SetupLogging(p)
    \/ InitState(p) \/ CheckCompleted(p)
    \/ AgentFetch(p) \/ AgentSolve(p) \/ AgentDryRun(p) \/ AgentGiveUp(p)
    \/ AgentSleep(p) \/ AgentSubmit(p) \/ AgentResponse(p)
    \/ QuerySuccess(p) \/ QueryError(p) \/ QueryThrow(p)
    \/ Finish(p)

\* Invocations of main() and of the scripts, one after the other, on the days
\* around the end of the event.
Init == InitAt(D(2025, 12, 5))

Next ==
    \/ \E p \in Single : Start(p) \/ Steps(p)
    \/ AdvanceClock(RunDates)
    \/ Elapse
    \/ RunSolver
    \/ Caffeinate
    \/ ScriptEnd

Spec == Init /\ [][Next]_vars

\* One invocation of main(), and the scripts, on every date of the model; the
\* state file of day 5 may be there as a file that is not valid JSON.
InitGate ==
    /\ now = D(2025, 11, 5)
    /\ store \in { [d \in StoreDays |-> NoFile],
                   [d \in StoreDays |-> IF d = 5 THEN CorruptFile ELSE NoFile] }
    /\ inv = [p \in Procs |-> Idle]
    /\ runs = 0
    /\ script = NoScript
    /\ site = 0
    /\ due = NoDue

NextGate ==
    \/ \E p \in Single : StartOnce(p) \/ Steps(p)
    \/ AdvanceClock(Dates)
    \/ Elapse
    \/ RunSolver
    \/ Caffeinate
    \/ ScriptEnd

SpecGate == InitGate /\ [][NextGate]_vars

\* The command lines for day 5 on 5 December
ArgvDay5 == { <<>>, <<"5">>, <<"5", "--force">>, <<"5", "--dry-run">> }

\* Invocations for day 5, one after the other, that may be killed at any point
\* and whose message stream may end without a result message.
StartKill(p) == runs < MaxRuns /\ Launch(p, ArgvDay5)

NextKill ==
    \/ \E p \in Single : StartKill(p) \/ Steps(p) \/ QueryEnd(p) \/ Kill(p)
    \/ Elapse

SpecKill == Init /\ [][NextKill]_vars

\* One invocation for day 5 whose submit calls may fail with network errors.
StartNet(p) == runs < 1 /\ Launch(p, ArgvDay5)

NextNet == \E p \in Single : StartNet(p) \/ Steps(p) \/ AgentNetworkError(p)

SpecNet == Init /\ [][NextNet]_vars

\* Invocations `main.ts 5` that may overlap: a process is started whether or
\* not another one is still running. Their conversations end with a result
\* message of subtype success.
ArgvConc == { <<"5">> }

\* the k-th invocation runs as process k
StartConc(p) == p = runs + 1 /\ Launch(p, ArgvConc)

NextConc ==
    \E p \in Procs :
       \/ StartConc(p)
       \/ ValidateEnv(p) \/ ExplicitDay(p) \/ ValidateDay(p)
       \/ CheckSession(p) \/ SetupLogging(p)
       \/ InitState(p) \/ CheckCompleted(p)
       \/ AgentFetch(p) \/ AgentSolve(p) \/ AgentGiveUp(p)
       \/ AgentSleep(p) \/ AgentSubmit(p) \/ AgentResponse(p)
       \/ QuerySuccess(p)
       \/ Finish(p)

SpecConc == Init /\ [][NextConc]_vars

\* One invocation on any command line of at most MaxArgs arguments:
\* process.argv.slice(2) is kept beside what parseArgs made of it.
ArgTokens == {"5", "12", "abc", "--day", "--dry-run", "--debug", "--force"}

ArgvUpTo(n) == UNION {[1..k -> ArgTokens] : k \in 0..n}

StartArgs(p) ==
    /\ inv[p].pc = "idle"
    /\ script = NoScript
    /\ runs < 1
    /\ runs' = runs + 1
    /\ \E argv \in ArgvUpTo(MaxArgs) :
          inv' = [inv EXCEPT ![p] = [inv[p] EXCEPT !.pc = "validateEnv", !.argv = argv,
                                                   !.args = parseArgs(argv)]]
    /\ UNCHANGED <<now, store, script, site, due>>

NextArgs ==
    \E p \in Single :
       \/ StartArgs(p)
       \/ ValidateEnv(p) \/ ExplicitDay(p) \/ ValidateDay(p)
       \/ Finish(p)

SpecArgs == Init /\ [][NextArgs]_vars

\* The setup validation command and invocations for day 5, both on any
\* environment.
StartSetup(p) == runs < MaxRuns /\ Launch(p, ArgvDay5)

NextSetup ==
    \/ SetupKey \/ SetupSession \/ SetupExit \/ ScriptEnd
    \/ \E p \in Single :
          \/ StartSetup(p)
          \/ ValidateEnv(p) \/ ExplicitDay(p) \/ ValidateDay(p) \/ CheckSession(p)
          \/ Finish(p)

SpecSetup == Init /\ [][NextSetup]_vars

\* One invocation without a day argument, started shortly before midnight (New
\* York) on the last day of a month or of the event.
Eves == {D(2025, 11, 30), D(2025, 12, 12), D(2025, 12, 31)}

InitClock ==
    /\ now \in Eves
    /\ store = [d \in StoreDays |-> NoFile]
    /\ inv = [p \in Procs |-> Idle]
    /\ runs = 0
    /\ script = NoScript
    /\ site = 0
    /\ due = NoDue

ArgvClock == { <<>>, <<"--force">> }

StartClock(p) == runs < 1 /\ Launch(p, ArgvClock)

NextClock ==
    \/ \E p \in Single :
          \/ StartClock(p)
          \/ ValidateEnv(p)
          \/ GateYear(p) \/ GateMonth(p) \/ GateDay(p) \/ ReadDay(p)
          \/ ValidateDay(p) \/ CheckSession(p) \/ SetupLogging(p)
          \/ InitState(p) \/ CheckCompleted(p)
          \/ AgentFetch(p) \/ AgentSolve(p) \/ AgentGiveUp(p)
          \/ AgentSleep(p) \/ AgentSubmit(p) \/ AgentResponse(p)
          \/ QuerySuccess(p) \/ QueryError(p) \/ QueryThrow(p)
          \/ Finish(p)
    \/ Midnight(Eves)

SpecClock == InitClock /\ [][NextClock]_vars

----------------------------------------------------------------------------
(* Vocabulary of the properties                                            *)

Active(p) == inv[p].pc # "idle"

Done(p) == inv[p].pc = "done"

\* no day argument at all
AutoMode(p) == Active(p) /\ inv[p].args.day.kind = "undefined"

\* a day argument inside the range main() accepts
ExplicitValid(p) ==
    Active(p) /\ Truthy(inv[p].args.day) /\ ~InvalidDay(inv[p].args.day.val)

\* a day argument outside that range: 0, negative, above 25, or no number
SuppliedInvalid(p) ==
    /\ Active(p)
    /\ \/ inv[p].args.day.kind = "nan"
       \/ inv[p].args.day.kind = "num" /\ InvalidDay(inv[p].args.day.val)

\* the day the invocation is for: the day given, else the current day
SelectedDay(p) ==
    IF Truthy(inv[p].args.day) THEN inv[p].args.day.val ELSE getCurrentDayEST(now)

\* the status the persisted state of the selected day had when the invocation
\* began (before the invocation has loaded it, the store still holds it)
StatusAtStart(p) ==
    IF inv[p].found # "unread" THEN inv[p].found
    ELSE IF SelectedDay(p) \in StoreDays THEN store[SelectedDay(p)].status
    ELSE "none"

Configured(p) == inv[p].apiKey = "set" /\ inv[p].session = "ok"

ConfigError(p) ==
    \/ inv[p].apiKey = "unset"
    \/ inv[p].session \in {"missing", "blank", "unreadable"}
    \/ SuppliedInvalid(p)

----------------------------------------------------------------------------
(* C1                                                                      *)

\* C1 as stated: every invocation without --force for a day whose persisted
\* state is completed exits 0 and starts no orchestration and no submission,
\* and run-solver.sh skips (exit 0, solver not run) whenever the state file of
\* the current day has status completed.
C1_AsStated ==
    /\ \A p \in Procs :
          (Done(p) /\ ~inv[p].args.force /\ StatusAtStart(p) = "completed")
             => (inv[p].exit = 0 /\ ~inv[p].queryStarted /\ ~inv[p].submitted)
    /\ (script.name = "run-solver" /\ script.ny.d \in StoreDays
          /\ store[script.ny.d].status = "completed")
             => (script.exit = 0 /\ ~script.ran)

\* C1 amended: an invocation without --force for a day whose persisted state
\* is completed never starts the orchestration, submits nothing and writes
\* nothing; once it has loaded that state it exits 0 (a configuration error
\* reported before that exits 1); run-solver.sh past its date gate skips with
\* exit 0 when jq is installed and the state file has status completed.
C1_SkipCompleted ==
    /\ \A p \in Procs :
          (Active(p) /\ ~inv[p].args.force /\ StatusAtStart(p) = "completed")
             => /\ ~inv[p].queryStarted /\ ~inv[p].submitted /\ ~inv[p].wrote
                /\ Done(p) => \/ inv[p].exit = 0
                              \/ inv[p].exit = 1 /\ inv[p].found = "unread"
                                   /\ ~Configured(p)
                /\ (Done(p) /\ inv[p].found = "completed") => inv[p].exit = 0
    /\ (script.name = "run-solver" /\ script.passed /\ script.jq
          /\ script.file = "completed")
             => (script.exit = 0 /\ ~script.ran)

\* C1 witness: a second invocation without --force found the day completed and
\* exited 0.
C1_Witness ==
    \E p \in Procs :
       /\ Done(p) /\ ~inv[p].args.force /\ inv[p].found = "completed"
       /\ inv[p].exit = 0 /\ runs = 2

----------------------------------------------------------------------------
(* C2                                                                      *)

\* C2 as stated: without a day argument, on a date outside 1..12 December
\* 2025, main() exits 0, starts no orchestration and writes no state file and
\* no log file; an orchestration started without a day argument is for a day
\* in 1..12.
C2_AsStated ==
    \A p \in Procs :
       /\ (Done(p) /\ AutoMode(p) /\ ~InWindow(now))
             => /\ inv[p].exit = 0
                /\ ~inv[p].queryStarted /\ ~inv[p].wrote /\ ~inv[p].logWritten
       /\ (AutoMode(p) /\ inv[p].queryStarted)
             => inv[p].day \in AOC_START_DAY..AOC_END_DAY

\* C2 amended: without a day argument, on a date outside 1..12 December 2025,
\* main() starts no orchestration and writes no state file and no log file; it
\* exits 0 with the skip when ANTHROPIC_API_KEY is set and exits 1 when it is
\* not; an orchestration started without a day argument is for the current
\* day, a day in 1..12 of December 2025.
C2_AutoGate ==
    \A p \in Procs :
       /\ (AutoMode(p) /\ ~InWindow(now))
             => /\ ~inv[p].queryStarted /\ ~inv[p].wrote /\ ~inv[p].logWritten
                /\ Done(p) => \/ inv[p].exit = 0 /\ inv[p].reason = "skip_window"
                                   /\ inv[p].apiKey = "set"
                              \/ inv[p].exit = 1 /\ inv[p].apiKey = "unset"
       /\ (AutoMode(p) /\ inv[p].queryStarted)
             => /\ InWindow(now)
                /\ inv[p].day = getCurrentDayEST(now)
                /\ inv[p].day \in AOC_START_DAY..AOC_END_DAY

\* C2 witness: an invocation without a day argument in December 2026 has
\* exited 0 at the window check.
C2_Witness ==
    \E p \in Procs :
       /\ Done(p) /\ AutoMode(p) /\ now = D(2026, 12, 5)
       /\ inv[p].exit = 0 /\ inv[p].reason = "skip_window"

----------------------------------------------------------------------------
(* C3                                                                      *)

\* C3 as stated: run-solver.sh and caffeinate-aoc.sh pass their date gate only
\* when the date in America/New_York is within 1..12 December 2025, whatever
\* the local time zone of the system.
C3_AsStated ==
    (script.name \in {"run-solver", "caffeinate"} /\ script.passed)
       => InWindow(script.ny)

----------------------------------------------------------------------------
(* C4                                                                      *)

\* C4 as stated: with an explicit valid day the window check does not block,
\* and orchestration starts, for exactly that day, if and only if the
\* persisted status is not completed or --force is given.
C4_AsStated ==
    \A p \in Procs :
       (Done(p) /\ ExplicitValid(p))
          => /\ inv[p].queryStarted
                  <=> (StatusAtStart(p) # "completed" \/ inv[p].args.force)
             /\ inv[p].queryStarted => inv[p].day = inv[p].args.day.val

\* C4 amended: with an explicit valid day, ANTHROPIC_API_KEY set, a usable
\* session cookie and a state file that can be written, the window check does
\* not block on any date (outside the window a note is printed), and
\* orchestration starts, for exactly that day, if and only if the persisted
\* status is not completed or --force is given.
C4_ExplicitDay ==
    \A p \in Procs :
       /\ (Done(p) /\ ExplicitValid(p) /\ Configured(p)
             /\ ~(inv[p].reason = "io" /\ ~inv[p].queryStarted))
             => /\ inv[p].queryStarted
                     <=> (inv[p].found # "completed" \/ inv[p].args.force)
                /\ inv[p].note <=> ~InWindow(now)
       /\ (ExplicitValid(p) /\ inv[p].queryStarted)
             => inv[p].day = inv[p].args.day.val

\* C4 witness: outside the window, a forced invocation for an explicit day
\* found it completed and started orchestration.
C4_Witness ==
    \E p \in Procs :
       /\ Done(p) /\ ExplicitValid(p) /\ ~InWindow(now)
       /\ inv[p].found = "completed" /\ inv[p].args.force
       /\ inv[p].queryStarted /\ inv[p].day = 5

----------------------------------------------------------------------------
(* C5, C6                                                                  *)

\* C5 as stated: an explicitly supplied day outside the valid range (0,
\* negative, above the upper bound, not a number) is rejected with a non-zero
\* exit: never the exit-0 skip, never an orchestration for some other day.
C5_AsStated ==
    \A p \in Procs :
       SuppliedInvalid(p)
          => /\ ~inv[p].queryStarted
             /\ Done(p) => inv[p].exit # 0

\* C6 as stated: every configuration error (ANTHROPIC_API_KEY unset, session
\* cookie missing or blank, invalid explicit day) ends in a non-zero exit with
\* no state file written and no orchestration started.
C6_AsStated ==
    \A p \in Procs :
       ConfigError(p)
          => /\ ~inv[p].queryStarted /\ ~inv[p].wrote
             /\ Done(p) => inv[p].exit # 0

----------------------------------------------------------------------------
(* C7                                                                      *)

\* C7: once the state of a day is completed, no invocation without --force
\* changes it: every step that changes a completed state is a step of an
\* invocation for that day that was given --force.
C7_CompletedKept ==
    [][ \A d \in StoreDays :
           (store[d].status = "completed" /\ store'[d] # store[d])
              => \E p \in Procs :
                    Active(p) /\ inv[p].day = d /\ inv[p].args.force ]_vars

\* C7 witness: an invocation without --force ran after the day was completed,
\* and the state is still completed.
C7_Witness ==
    \E p \in Procs :
       /\ Done(p) /\ ~inv[p].args.force /\ inv[p].reason = "skip_completed"
       /\ store[inv[p].day].status = "completed"
       /\ store[inv[p].day].completed_at

----------------------------------------------------------------------------
(* C8                                                                      *)

\* C8 as stated: a day whose status is completed has part 1 and part 2 both
\* completed.
C8_AsStated ==
    \A d \in StoreDays :
       store[d].status = "completed"
          => /\ store[d].part1.status = "completed"
             /\ store[d].part2.status = "completed"

----------------------------------------------------------------------------
(* C9                                                                      *)

\* C9: the persisted attempts of a part never exceed the five allowed, over
\* any sequence of invocations, forced and resumed ones included.
C9_AttemptsBounded ==
    \A d \in StoreDays :
       /\ store[d].part1.attempts <= MAX_SUBMISSION_ATTEMPTS
       /\ store[d].part2.attempts <= MAX_SUBMISSION_ATTEMPTS

\* C9 witness: a later invocation (forced, or resumed after a failure) has
\* worked on a part all of whose attempts were used, and has given up.
C9_Witness ==
    \E p \in Procs :
       /\ Running(p) /\ inv[p].found \in {"failed", "completed"}
       /\ inv[p].part = 1 /\ inv[p].phase = "finished"
       /\ store[inv[p].day].part1.attempts = MAX_SUBMISSION_ATTEMPTS
       /\ ~inv[p].submitted

----------------------------------------------------------------------------
(* C10                                                                     *)

\* the part of the state file the invocation is working on
CurrentPart(p) == PartOf(store[inv[p].day], inv[p].part)

\* C10: an incorrect answer at attempts = max - 1 makes the part failed for
\* good in that run (attempts = max, workflow over), and no submission is
\* issued for a part whose attempts are used up: there is no sixth call.
C10_NoSixthSubmit ==
    [][ \A p \in Procs :
           (Running(p) /\ inv[p].part \in {1, 2})
              => /\ ( /\ inv[p].phase = "awaiting"
                      /\ CurrentPart(p).attempts = MAX_SUBMISSION_ATTEMPTS - 1
                      /\ PartOf(store'[inv[p].day], inv[p].part).attempts
                            = MAX_SUBMISSION_ATTEMPTS
                      /\ PartOf(store'[inv[p].day], inv[p].part).status # "completed" )
                    => /\ PartOf(store'[inv[p].day], inv[p].part)
                             = [status |-> "failed", attempts |-> MAX_SUBMISSION_ATTEMPTS]
                       /\ inv'[p].pc = "query" /\ inv'[p].phase = "submit"
                       /\ inv'[p].part = inv[p].part
                       /\ ~MaySubmit(PartOf(store'[inv[p].day], inv[p].part).attempts)
                 /\ CurrentPart(p).attempts >= MAX_SUBMISSION_ATTEMPTS
                    => ~(inv'[p].pc = "query" /\ inv'[p].phase = "awaiting") ]_vars

\* C10 witness: a fresh run had five incorrect answers for part 1 and stopped.
C10_Witness ==
    \E p \in Procs :
       /\ Running(p) /\ inv[p].found = "none" /\ inv[p].submitted
       /\ inv[p].part = 1 /\ inv[p].phase = "finished"
       /\ store[inv[p].day].part1
             = [status |-> "failed", attempts |-> MAX_SUBMISSION_ATTEMPTS]

----------------------------------------------------------------------------
(* C11                                                                     *)

----------------------------------------------------------------------------
(* C12, C13                                                                *)

\* C12 as stated: after a rate-limited response no submit call is issued
\* before the wait has elapsed: every submit call is issued when nothing is
\* left of the wait the site asked for.
C12_AsStated ==
    [][ \A p \in Procs :
           (inv[p].phase = "submit" /\ inv'[p].phase = "awaiting") => site = 0 ]_vars

\* C13 as stated: the rate limit survives the process: an invocation that
\* started while the wait of an earlier rate-limited response was still
\* running (it has received no rate-limited response itself) has made no
\* submit call while something is left of that wait.
C13_AsStated ==
    \A p \in Procs :
       (Running(p) /\ inv[p].limited = 0 /\ site > 0) => ~inv[p].submitted

----------------------------------------------------------------------------
(* C14                                                                     *)

\* C14: an invocation that finds no state file for its day treats the day as
\* pending and goes on: the state with status pending is created and saved
\* before the completed check and the orchestration, the orchestration runs on
\* a saved state, and the only thing that stops the invocation before
\* orchestration is a save that fails: the missing file is no error.
C14_MissingIsPending ==
    \A p \in Procs :
       inv[p].found = "none"
          => /\ inv[p].pc = "checkCompleted"
                   => /\ store[inv[p].day].kind = "json"
                      /\ store[inv[p].day].status = "pending"
                      /\ inv[p].state = store[inv[p].day]
             /\ inv[p].queryStarted
                   => inv[p].wrote /\ store[inv[p].day].kind = "json"
             /\ (Done(p) /\ ~inv[p].queryStarted)
                   => inv[p].exit = 1 /\ inv[p].reason = "io"

\* C14 witness: orchestration has started on the pending state the invocation
\* created for a day that had no state file.
C14_Witness ==
    \E p \in Procs :
       /\ Running(p) /\ inv[p].found = "none" /\ ~inv[p].args.force
       /\ inv[p].phase = "fetch"
       /\ store[inv[p].day].status = "pending"

----------------------------------------------------------------------------
(* C15                                                                     *)

\* C15 as stated: an invocation whose state file exists but is corrupt starts
\* no orchestration, exits with a non-zero status, and leaves the corrupt
\* file as it is.
C15_AsStated ==
    \A p \in Procs :
       inv[p].found = "corrupt"
          => /\ ~inv[p].queryStarted
             /\ Done(p) => inv[p].exit # 0
             /\ store[inv[p].day].kind = "corrupt"

----------------------------------------------------------------------------
(* C16                                                                     *)

\* C16: a save of the day's state that fails (the new pending state, the
\* forced in_progress state, the final update, the update of the catch block)
\* ends the run at once with a non-zero exit status; when the save of the new
\* or of the forced state fails, no orchestration was started and nothing was
\* submitted.
C16_SaveFailureAborts ==
    \A p \in Procs :
       inv[p].saveFailed # "none"
          => /\ Done(p) /\ inv[p].exit # 0
             /\ inv[p].saveFailed \in {"initial", "force"}
                   => ~inv[p].queryStarted /\ ~inv[p].submitted

\* C16 witness: the save of the forced in_progress state of a failed day has
\* failed.
C16_Witness ==
    \E p \in Procs :
       /\ inv[p].saveFailed = "force" /\ inv[p].found = "failed"
       /\ Done(p) /\ inv[p].exit = 1

----------------------------------------------------------------------------
(* C17                                                                     *)

\* C17: with --force an invocation that has loaded the state of its day is
\* never stopped by the completed check, whatever status it found: it starts
\* orchestration (unless a save fails), and at the step that starts it the
\* status in_progress is in the state file; and every step that makes the
\* status of a day in_progress is the completed-check step of an invocation
\* with --force: without --force main() never writes it.
C17_ForceBypass ==
    [][ /\ \A p \in Procs :
              /\ (Done(p) /\ inv[p].args.force /\ inv[p].found # "unread")
                    => /\ inv[p].reason # "skip_completed"
                       /\ inv[p].queryStarted
                             \/ inv[p].saveFailed \in {"initial", "force"}
              /\ (inv[p].args.force /\ ~inv[p].queryStarted /\ inv'[p].queryStarted)
                    => /\ store'[inv[p].day].kind = "json"
                       /\ store'[inv[p].day].status = "in_progress"
                       /\ inv'[p].phase = "fetch"
        /\ \A d \in StoreDays :
              (store'[d].status = "in_progress" /\ store[d].status # "in_progress")
                 => \E p \in Procs :
                       /\ inv[p].pc = "checkCompleted" /\ inv[p].day = d
                       /\ inv[p].args.force ]_vars

\* C17 witness: a forced invocation found the day completed, and orchestration
\* has started on the state reset to in_progress.
C17_Witness ==
    \E p \in Procs :
       /\ Running(p) /\ inv[p].args.force /\ inv[p].found = "completed"
       /\ inv[p].phase = "fetch"
       /\ store[inv[p].day].status = "in_progress"

----------------------------------------------------------------------------
(* C18                                                                     *)

\* C18 as stated: an invocation with --dry-run submits nothing and does not
\* leave the status of its day completed (unless it found it completed).
C18_AsStated ==
    \A p \in Procs :
       (Active(p) /\ inv[p].args.dryRun)
          => /\ ~inv[p].submitted
             /\ (Done(p) /\ inv[p].found \notin {"unread", "completed"})
                   => store[inv[p].day].status # "completed"

----------------------------------------------------------------------------
(* C19                                                                     *)

\* C19: part 2 is worked on only when part 1 is completed: the state file has
\* a record of part 2 only with part 1 completed, an invocation is on part 2
\* only with part 1 completed (so none after part 1 used up its attempts), and
\* the two parts are never in progress together.
C19_PartOrder ==
    /\ \A d \in StoreDays :
          /\ store[d].part2.status # "absent" => store[d].part1.status = "completed"
          /\ ~(store[d].part1.status = "in_progress"
                 /\ store[d].part2.status = "in_progress")
    /\ \A p \in Procs :
          (Running(p) /\ inv[p].part = 2)
             => store[inv[p].day].part1.status = "completed"

\* C19 witness: a submission for part 2 is under way, part 1 being completed.
C19_Witness ==
    \E p \in Procs :
       /\ Running(p) /\ inv[p].part = 2 /\ inv[p].phase = "awaiting"
       /\ store[inv[p].day].part1.status = "completed"
       /\ store[inv[p].day].part2.status = "in_progress"

----------------------------------------------------------------------------
(* C20                                                                     *)

\* C20 as stated: the caffeinate job run on an evening (New York date)
\* keeps the system awake exactly when the next day is a puzzle day, a day in
\* 1..12 December 2025.
C20_AsStated ==
    (script.name = "caffeinate" /\ script.exit # -1)
       => (script.awake <=> InWindow(NextDay(script.ny)))

\* The submit call of process p: aoc submit is issued in this step
SubmitCall(p) ==
    /\ Running(p) /\ inv[p].phase = "submit"
    /\ inv'[p].pc = "query" /\ inv'[p].phase = "awaiting"

\* C21 (as stated): attempt 2, 3, 4, 5 of a part is made no earlier than 1, 5,
\* 15, 60 minutes after the previous attempt was completed: no submit call is
\* issued while a rest of that backoff is left.
C21_AsStated ==
    [][ \A p \in Procs : SubmitCall(p) => due.backoff = 0 ]_vars

\* C22 (as stated): two consecutive submit calls for the same part are at least
\* 60 seconds apart: no submit call is issued while a rest of the minute since
\* the last submit call for the part is left.
C22_AsStated ==
    [][ \A p \in Procs : SubmitCall(p) => due.floor = 0 ]_vars

----------------------------------------------------------------------------
(* C23                                                                     *)

\* The step in which process p has the outcome of its submit call
ResponseStep(p) ==
    /\ Running(p) /\ inv[p].phase = "awaiting"
    /\ inv'[p].pc = "query" /\ inv'[p].phase # "awaiting"

\* C23 (as stated): Correct and Incorrect each add one to the part's attempts;
\* RateLimited and AlreadyCompleted leave them unchanged, and AlreadyCompleted
\* ends the part as a success; a TransientError leaves them unchanged and is
\* retried, and the third consecutive one is counted once as an Incorrect.
C23_AsStated ==
    [][ \A p \in Procs : ResponseStep(p) =>
          LET before == Logged(store[inv[p].day], inv[p].part)
              after == Logged(store'[inv[p].day], inv[p].part)
              outcome == inv'[p].outcome
          IN /\ outcome \in {"correct", "incorrect"}
                   => after.attempts = before.attempts + 1
             /\ outcome \in {"rate_limited", "already_completed"}
                   => after.attempts = before.attempts
             /\ outcome = "already_completed" => after.status = "completed"
             /\ outcome = "network_error"
                   => IF inv[p].retries + 1 < 3
                      THEN /\ after.attempts = before.attempts
                           /\ inv'[p].phase = "submit"
                      ELSE after.attempts = before.attempts + 1 ]_vars

----------------------------------------------------------------------------
(* C24                                                                     *)

\* C24 (as stated): a run that finds the puzzle of its day not yet unlocked is
\* a skip: it makes no submission and leaves the day's status 'pending', so
\* that a later invocation runs the day again.
C24_AsStated ==
    \A p \in Procs :
       (/\ Done(p) /\ inv[p].fetched = "not_unlocked"
        /\ inv[p].found \in {"none", "pending"} /\ ~inv[p].args.force
        /\ inv[p].saveFailed = "none")
          => /\ ~inv[p].submitted
             /\ store[inv[p].day].status = "pending"

----------------------------------------------------------------------------
(* C25                                                                     *)

\* C25: a kill writes nothing, so the state it leaves is the last one saved;
\* and an invocation without --force that has loaded the state of its day is
\* stopped by the check only when the status it found is completed: with every
\* other status (pending, in_progress, failed) it starts orchestration, so no
\* day is stuck in a state left by a killed process.
C25_ResumeAfterKill ==
    [][ \A p \in Procs :
          /\ (inv[p].pc \notin {"idle", "done"} /\ inv'[p].pc = "idle")
                => store' = store
          /\ (inv[p].pc = "checkCompleted" /\ inv'[p].pc # "idle"
              /\ ~inv[p].args.force)
                => IF inv[p].found = "completed"
                   THEN Done(p)' /\ inv'[p].reason = "skip_completed"
                   ELSE /\ Running(p)' /\ inv'[p].phase = "fetch"
                        /\ store' = store ]_vars

\* C25 witness: the process before this one was killed while part 1 was in
\* work (the day still pending, one attempt logged), and this invocation
\* without --force has started orchestration on that state.
C25_Witness ==
    \E p \in Procs :
       /\ Running(p) /\ inv[p].prior = "killed" /\ ~inv[p].args.force
       /\ inv[p].found = "pending" /\ inv[p].phase = "fetch"
       /\ store[inv[p].day].part1.status = "in_progress"
       /\ store[inv[p].day].part1.attempts = 1

----------------------------------------------------------------------------
(* C26                                                                     *)

\* C26: an invocation for day d reads and writes only the record of day d:
\* the status it finds is the one of that record, and in every step, whatever
\* the outcome, the record of a day changes only if a running invocation is
\* for that day; the records of all other days stay as they are.
C26_OtherDaysUntouched ==
    [][ /\ \A d \in StoreDays :
              store'[d] # store[d]
                 => \E p \in Procs : Active(p) /\ inv[p].day = d
        /\ \A p \in Procs :
              (inv[p].pc = "initState" /\ inv'[p].pc # "idle")
                 => inv'[p].found = IF store[inv[p].day].kind = "json"
                                    THEN store[inv[p].day].status
                                    ELSE store[inv[p].day].kind ]_vars

\* C26 witness: an invocation for day 12 has written the state of day 12 and
\* ended, and the unreadable file of day 5 is as it was.
C26_Witness ==
    \E p \in Procs :
       /\ Done(p) /\ inv[p].day = 12 /\ inv[p].wrote /\ inv[p].submitted
       /\ store[12].kind = "json" /\ store[12].status = "failed"
       /\ store[5] = CorruptFile

----------------------------------------------------------------------------
(* C27                                                                     *)

----------------------------------------------------------------------------
(* C28                                                                     *)

\* C28 (as stated): without a day argument the day main() runs is the day the
\* window check accepted, also when the clock passes midnight between the
\* clock reads: an orchestration is for a day in 1..12 and is started on a
\* date in 1..12 December 2025.
C28_AsStated ==
    \A p \in Procs :
       (AutoMode(p) /\ inv[p].queryStarted)
          => /\ inv[p].day = inv[p].dayRead
             /\ inv[p].day \in AOC_START_DAY..AOC_END_DAY
             /\ InWindow(now)

----------------------------------------------------------------------------
(* C29                                                                     *)

\* The status of the day's state when the orchestration of p started
StatusAtQuery(p) ==
    IF inv[p].args.force THEN "in_progress"
    ELSE IF inv[p].found \in {"none", "corrupt"} THEN "pending"
    ELSE inv[p].found

----------------------------------------------------------------------------
(* C30                                                                     *)

\* C30: the step that ends an orchestration (result message, exception, end of
\* the stream) changes at most status, completed_at and error of the day's
\* state as it is in the store at that moment: part 1 and part 2, as the
\* agents logged them during the orchestration, are preserved, and the copy
\* main() loaded before the orchestration is not written back.
C30_FinalUpdateKeepsParts ==
    [][ \A p \in Procs :
          (Running(p) /\ Done(p)')
             => LET before == store[inv[p].day]
                    after == store'[inv[p].day]
                IN /\ after.part1 = before.part1
                   /\ after.part2 = before.part2
                   /\ after = [before EXCEPT !.status = after.status,
                                             !.completed_at = after.completed_at,
                                             !.error = after.error]
                   /\ \A d \in StoreDays \ {inv[p].day} : store'[d] = store[d] ]_vars

\* C30 witness: the agents logged two attempts for part 1 during the
\* orchestration of a day that had no state file; the conversation ended with
\* an error subtype, and the final update made the day failed and kept them.
C30_Witness ==
    \E p \in Procs :
       /\ Done(p) /\ inv[p].reason = "result" /\ inv[p].found = "none"
       /\ store[inv[p].day].status = "failed"
       /\ store[inv[p].day].part1.status = "in_progress"
       /\ store[inv[p].day].part1.attempts = 2

----------------------------------------------------------------------------
(* C31                                                                     *)

\* The content has a character that is not white space
NonBlank(content) == \E i \in 1..Len(content) : ~IsSpace(content[i])

\* The end of check-session, and the session check of main()
SetupEnded == script.name = "check-session" /\ script.exit # -1

SessionGatePassed(p) == inv[p].session # "unread" /\ ~Done(p)

SessionGateFailed(p) == Done(p) /\ inv[p].reason = "session"

\* C31 (as stated): check-session exits 0 iff ANTHROPIC_API_KEY is set and the
\* session file exists with non-blank content after trimming, and exits 1
\* otherwise; both checks have been made whatever the first one found; and
\* main() passes its session check under the same condition on the file.
C31_AsStated ==
    /\ SetupEnded
          => /\ script.exit \in {0, 1}
             /\ script.keyChecked /\ script.sessionChecked
             /\ script.exit = 0
                   <=> /\ script.env.kind # "undefined"
                       /\ script.cookie.exists /\ NonBlank(script.cookie.content)
    /\ \A p \in Procs :
          /\ SessionGatePassed(p)
                => inv[p].cookie.exists /\ NonBlank(inv[p].cookie.content)
          /\ SessionGateFailed(p)
                => ~(inv[p].cookie.exists /\ NonBlank(inv[p].cookie.content))

\* C31 amended: check-session exits 0 iff ANTHROPIC_API_KEY is set to a
\* non-empty value and the session file exists, can be read and has non-blank
\* content after trimming, and exits 1 otherwise; both checks have been made
\* whatever the first one found; and main() passes its session check under
\* the same condition on the file, exiting 1 at that check otherwise.
C31_SetupValidation ==
    /\ SetupEnded
          => /\ script.exit \in {0, 1}
             /\ script.keyChecked /\ script.sessionChecked
             /\ script.exit = 0
                   <=> /\ script.env.kind = "string" /\ script.env.val # <<>>
                       /\ script.cookie.exists /\ script.cookie.readable
                       /\ NonBlank(script.cookie.content)
    /\ \A p \in Procs :
          /\ SessionGatePassed(p)
                => /\ inv[p].cookie.exists /\ inv[p].cookie.readable
                   /\ NonBlank(inv[p].cookie.content)
          /\ SessionGateFailed(p)
                => /\ inv[p].exit = 1
                   /\ ~(/\ inv[p].cookie.exists /\ inv[p].cookie.readable
                        /\ NonBlank(inv[p].cookie.content))

\* C31 witness: check-session found ANTHROPIC_API_KEY unset, went on to check
\* the session file, found it holding only white space, and exited 1.
C31_Witness ==
    /\ SetupEnded /\ script.exit = 1
    /\ script.env = EnvUndefined
    /\ script.sessionChecked
    /\ script.cookie = CookieFile(TRUE, <<" ", "\n">>)

----------------------------------------------------------------------------
(* C32                                                                     *)

\* The positions of the non-flag arguments, and the least of a set of them
NonFlags(argv) == {i \in 1..Len(argv) : ~startsWithDashes(argv[i])}

First(S) == CHOOSE i \in S : \A j \in S : i <= j

Appears(flag, argv) == \E i \in 1..Len(argv) : argv[i] = flag

\* C32 (as stated): the first non-flag argument of the command line is the
\* day, later non-flag arguments not replacing it, and each of --dry-run,
\* --debug and --force that appears on the command line has its flag true,
\* whatever its position, directly after --day included.
C32_AsStated ==
    \A p \in Procs :
       inv[p].pc # "idle"
          => /\ NonFlags(inv[p].argv) # {}
                   => inv[p].args.day = parseInt(inv[p].argv[First(NonFlags(inv[p].argv))])
             /\ Appears("--dry-run", inv[p].argv) => inv[p].args.dryRun
             /\ Appears("--debug", inv[p].argv) => inv[p].args.debug
             /\ Appears("--force", inv[p].argv) => inv[p].args.force

============================================================================
